---------------------------- MODULE Spec2Model ----------------------------
(***************************************************************************)
(* Model of io_hkx_animation/ops.py: the HKXImport and HKXExport operators *)
(* (execute and the helpers they call) and the snap pass they apply to     *)
(* decomposed transforms.                                                  *)
(*                                                                         *)
(* The host (Blender) is modelled by the state the operators read and      *)
(* write: the scene frame rate and current frame, the armature objects     *)
(* with their selection state and stored iohkx properties, the active      *)
(* object, the actions created by import, and the temporary file on disk.  *)
(* Everything outside the add-on that can go either way (the file system,  *)
(* the converter process, the content of the intermediate document, the    *)
(* pose data of an armature) is drawn with \E where the code reads it.     *)
(***************************************************************************)
EXTENDS Integers, Sequences, FiniteSets, TLC

(***************************************************************************)
(* Program constants                                                       *)
(***************************************************************************)
SAMPLING_RATE == 30

AXES == {"X", "Y", "Z", "-X", "-Y", "-Z"}

(***************************************************************************)
(* Bounds of the model                                                     *)
(***************************************************************************)
MaxArmas == 3
MaxFrame == 3
MaxAnims == 2
MaxSkels == 2
MaxBones == 1

(***************************************************************************)
(* Small input sets                                                        *)
(***************************************************************************)
HostRates == {24, 30, 60}
ForwardChoices == {"Y", "Z"}
UpChoices == {"Z", "-Z"}
SecondaryChoices == {"", "secondary.hkx"}
PrimaryPath == "primary.hkx"

Min(a, b) == IF a < b THEN a ELSE b
Abs(a) == IF a < 0 THEN 0 - a ELSE a
Range(s) == {s[i] : i \in 1..Len(s)}
SeqsUpTo(S, n) == UNION {[1..k -> S] : k \in 0..n}

VARIABLES
    \* host state
    fps,            \* context.scene.render.fps
    frame_current,  \* context.scene.frame_current
    objects,        \* the armature objects of the scene
    active,         \* context.view_layer.objects.active (0: none / not an armature)
    actions,        \* bpy.data.actions created by the operator
    tmp_exists,     \* whether the temporary intermediate file is on disk
    \* the operator instance
    op,             \* "none", "import" or "export"
    bone_forward, bone_up, secondary_skeleton, frame_interval,
    pc,             \* position inside execute
    exc,            \* exception pending inside a try block ("" if none)
    armatures,      \* local list of armatures (object ids)
    idoc,           \* import: the document read from the temporary file
    doc,            \* export: the document being built
    frames,         \* export: self.frames
    reports,        \* self.report calls, in order
    calls,          \* subprocess.run invocations, in order
    result,         \* return value of execute
    entry,          \* host state when execute was called
    cursor,         \* export: position of the loop over armatures
    seen,           \* export: the pose data read from each armature, in order
    \* snap pass
    xf, xf1, xf2,
    \* length scale of the exporting and of the importing operator
    export_scale, import_scale,
    \* import_bone: the edit bone with its children, the child found
    \* connected and the length the bone ends with
    ebone, ebone_child, ebone_length,
    \* name overrides: the bones of an armature, the pose bone exported, the
    \* name of its track and the bone name import resolves that name to
    arm_bones, pbone, track_name, bone_name

hostvars == <<fps, frame_current, objects, active, actions, tmp_exists>>
opvars == <<op, bone_forward, bone_up, secondary_skeleton, frame_interval>>
runvars == <<pc, exc, armatures, idoc, doc, frames, reports, calls, result, entry,
            cursor, seen>>
scalevars == <<export_scale, import_scale>>
bonevars == <<ebone, ebone_child, ebone_length>>
namevars == <<arm_bones, pbone, track_name, bone_name>>
snapvars == <<xf, xf1, xf2, scalevars, bonevars, namevars>>
vars == <<hostvars, opvars, runvars, snapvars>>


(***************************************************************************)
(* Host data                                                               *)
(***************************************************************************)
\* bones of an armature that is already in the scene (bone name, iohkx.hkx_name)
HostBones ==
    << [name |-> "Root", hkx_name |-> ""],
       [name |-> "Hand.L", hkx_name |-> "Bone"],
       [name |-> "Hand.R", hkx_name |-> ""] >>

\* bones of an armature created by import_skeleton (hkx_name keeps its default "")
FileBones == << [name |-> "Bone", hkx_name |-> ""] >>

BonesOf(obj) == IF obj.data = "file" THEN FileBones ELSE HostBones

HostArmature(sel) ==
    [selected |-> sel, isNew |-> FALSE, data |-> "host", skeleton_path |-> "",
     bone_forward |-> "Y", bone_up |-> "Z", action |-> 0]

Snapshot == [fps |-> fps, frame_current |-> frame_current, active |-> active,
             objects |-> objects, actions |-> actions]

(***************************************************************************)
(* The intermediate document as import reads it                            *)
(***************************************************************************)
Channels == 1..10   \* loc x,y,z; rot w,x,y,z; scl x,y,z

AnimFull ==
    [tracks |-> << [name |-> "Bone", datatype |-> "TRANSFORM", frames |-> <<0, 1>>],
                   [name |-> "weight", datatype |-> "FLOAT", frames |-> <<0, 1>>] >>,
     annotations |-> << [frame |-> 1, text |-> "hit"] >>]

AnimBare ==
    [tracks |-> << [name |-> "Root", datatype |-> "TRANSFORM", frames |-> <<0>>] >>,
     annotations |-> <<>>]

AnimKinds == {AnimFull, AnimBare}

NoIDoc == [loaded |-> FALSE, skeletons |-> 0, animations |-> <<>>]

IDocs == [loaded : {TRUE}, skeletons : 0..MaxSkels,
          animations : SeqsUpTo(AnimKinds, MaxAnims)]

NoDoc == [created |-> FALSE, frames |-> 0, framerate |-> 0, animations |-> <<>>]

NoXf == [site |-> "none", loc |-> <<0, 0, 0>>, rot |-> <<0, 0, 0, 0>>, scl |-> <<0, 0, 0>>]

\* length_scale as a fraction; the default of the property is 1.0
DefaultScale == [num |-> 1, den |-> 1]

NoBone == [loc |-> <<0, 0, 0>>, y_axis |-> [axis |-> 2, sign |-> 1], children |-> <<>>]

\* no bone is being imported
BoneIdle == ebone = NoBone /\ ebone_child = 0 /\ ebone_length = 0

\* no track is being named
NameIdle == arm_bones = <<>> /\ pbone = 0 /\ track_name = "" /\ bone_name = ""

(***************************************************************************)
(* HKXIO helpers                                                           *)
(***************************************************************************)
\* the whole label instead of its last character
AxisLabel(a) == a

AxisLetter(a) == CASE a \in {"X", "-X"} -> "X"
                   [] a \in {"Y", "-Y"} -> "Y"
                   [] OTHER -> "Z"

\* bpy_extras axis_conversion as HKXIO.axis_conversion calls it: identical
\* conventions short-cut to the identity, otherwise forward and up on the
\* same axis raise.
AxisConversionThrows(from_forward, from_up, to_forward, to_up) ==
    /\ ~(from_forward = to_forward /\ from_up = to_up)
    /\ \/ AxisLetter(from_forward) = AxisLetter(from_up)
       \/ AxisLetter(to_forward) = AxisLetter(to_up)

\* HKXIO.get_selected: the active armature first if it is selected, then the
\* other selected armatures
GetSelected(objs, act) ==
    (IF act # 0 /\ objs[act].selected THEN <<act>> ELSE <<>>)
    \o SelectSeq([i \in 1..Len(objs) |-> i],
                 LAMBDA i : objs[i].selected /\ i # act)

\* the except clause of execute: report the error, return CANCELLED
Raise(msg) ==
    /\ reports' = Append(reports, [type |-> "ERROR", msg |-> msg])
    /\ result' = "CANCELLED"
    /\ pc' = "done"

Report(type, msg) == reports' = Append(reports, [type |-> type, msg |-> msg])

(***************************************************************************)
(* Initial state: a scene, no operator running                             *)
(***************************************************************************)
HostInit ==
    /\ fps \in HostRates
    /\ frame_current = 1
    \* n armatures, the first k of them selected (the operators treat the
    \* armatures of the scene alike, up to which one is active)
    /\ \E n \in 0..MaxArmas, k \in 0..MaxArmas :
          /\ k <= n
          /\ objects = [i \in 1..n |-> HostArmature(i <= k)]
    /\ active \in 0..Len(objects)
    /\ actions = <<>>
    /\ tmp_exists = FALSE

IdleInit ==
    /\ op = "none"
    /\ bone_forward = "Y" /\ bone_up = "Z"
    /\ secondary_skeleton = ""
    /\ frame_interval = <<0, 0>>
    /\ exc = ""
    /\ armatures = <<>>
    /\ idoc = NoIDoc
    /\ doc = NoDoc
    /\ frames = 0
    /\ reports = <<>>
    /\ calls = <<>>
    /\ result = "NONE"
    /\ cursor = 1
    /\ seen = <<>>

Init ==
    /\ HostInit
    /\ IdleInit
    /\ pc = "idle"
    /\ entry = Snapshot
    /\ xf = NoXf /\ xf1 = NoXf /\ xf2 = NoXf
    /\ export_scale = DefaultScale /\ import_scale = DefaultScale
    /\ BoneIdle
    /\ NameIdle

(***************************************************************************)
(* HKXImport                                                               *)
(***************************************************************************)
\* invoke and the file dialog: the operator properties are set
ImportInvoke ==
    /\ pc = "idle"
    /\ \E f \in ForwardChoices, u \in UpChoices, s \in SecondaryChoices :
          /\ bone_forward' = f
          /\ bone_up' = u
          /\ secondary_skeleton' = s
    /\ op' = "import"
    /\ pc' = "i_axis"
    /\ entry' = Snapshot
    /\ UNCHANGED <<hostvars, frame_interval, exc, armatures, idoc, doc, frames,
                   reports, calls, result, cursor, seen, snapvars>>

\* execute, line 230
ImportAxisConversion ==
    /\ pc = "i_axis"
    /\ IF AxisConversionThrows(bone_forward, bone_up, "Y", "Z")
       THEN Raise("Invalid axis arguments")
       ELSE pc' = "i_fps" /\ UNCHANGED <<reports, result>>
    /\ UNCHANGED <<hostvars, opvars, exc, armatures, idoc, doc, frames, calls,
                   entry, cursor, seen, snapvars>>

\* the rate test with > for !=
RateAboveSampling(rate) == rate > SAMPLING_RATE

NeedsRateWarning(rate) == rate # SAMPLING_RATE

\* execute, lines 233-235
ImportSetFramerate ==
    /\ pc = "i_fps"
    /\ IF NeedsRateWarning(fps)
       THEN /\ fps' = SAMPLING_RATE
            /\ Report("WARNING", "Setting framerate")
       ELSE UNCHANGED <<fps, reports>>
    /\ pc' = "i_converter"
    /\ UNCHANGED <<frame_current, objects, active, actions, tmp_exists, opvars,
                   exc, armatures, idoc, doc, frames, calls, result, entry,
                   cursor, seen, snapvars>>

\* execute, line 238 (get_converter)
ImportGetConverter ==
    /\ pc = "i_converter"
    /\ \E exists \in BOOLEAN :
          IF exists
          THEN pc' = "i_run" /\ UNCHANGED <<reports, result>>
          ELSE Raise("Converter tool not found")
    /\ UNCHANGED <<hostvars, opvars, exc, armatures, idoc, doc, frames, calls,
                   entry, cursor, seen, snapvars>>

ImportArgs ==
    <<"unpack", "tmp", PrimaryPath>>
    \o (IF secondary_skeleton # "" THEN <<secondary_skeleton>> ELSE <<>>)

\* execute, lines 241-251: the converter runs; it may or may not leave the
\* temporary file, and exits with some code
ImportRunConverter ==
    /\ pc = "i_run"
    /\ calls' = Append(calls, ImportArgs)
    /\ \E code \in {0, 1}, wrote \in BOOLEAN :
          /\ tmp_exists' = wrote
          /\ IF code # 0
             THEN exc' = "Converter returned non-zero" /\ pc' = "i_finally"
             ELSE exc' = "" /\ pc' = "i_open"
    /\ UNCHANGED <<fps, frame_current, objects, active, actions, opvars,
                   armatures, idoc, doc, frames, reports, result, entry, cursor, seen, snapvars>>

\* execute, line 254: DocumentInterface.open
ImportOpenDocument ==
    /\ pc = "i_open"
    /\ \/ /\ tmp_exists
          /\ \E d \in IDocs : idoc' = d
          /\ exc' = ""
       \/ /\ exc' = "Document could not be read"
          /\ UNCHANGED idoc
    /\ pc' = "i_finally"
    /\ UNCHANGED <<hostvars, opvars, armatures, doc, frames, reports, calls,
                   result, entry, cursor, seen, snapvars>>

\* the finally clause without the removal
TmpKept(exists) == exists

\* os.path.exists(tmp_file) -> os.remove(tmp_file)
TmpAfterImportFinally(exists) == IF exists THEN FALSE ELSE exists

\* execute, lines 256-258: the finally clause, then the pending exception
ImportRemoveTmp ==
    /\ pc = "i_finally"
    /\ tmp_exists' = TmpAfterImportFinally(tmp_exists)
    /\ IF exc # ""
       THEN Raise(exc)
       ELSE pc' = "i_select" /\ UNCHANGED <<reports, result>>
    /\ exc' = ""
    /\ UNCHANGED <<fps, frame_current, objects, active, actions, opvars,
                   armatures, idoc, doc, frames, calls, entry, cursor, seen, snapvars>>


\* the test of line 291 with the comparison weakened
CountMismatchTooMany(n_armatures, n_anims) == n_armatures > n_anims

\* the test of line 291
CountMismatch(n_armatures, n_anims) == n_armatures # n_anims

NextAfterArmatures(armas) ==
    IF Len(idoc.animations) > Len(armas) THEN "i_duplicate" ELSE "i_animation"

\* execute, lines 262-273 and 288-296: look up the selected armatures and,
\* when there are some, check them against the document
ImportGetSelected ==
    /\ pc = "i_select"
    /\ LET armas == GetSelected(objects, active) IN
          /\ armatures' = armas
          /\ IF Len(armas) = 0
             THEN pc' = "i_skeleton" /\ UNCHANGED <<reports, result>>
             ELSE IF CountMismatch(Len(armas), Len(idoc.animations))
             THEN Raise("Exactly n or 0 Armatures must be selected")
             ELSE IF active \notin Range(armas)
             THEN Raise("Primary Armature must be active")
             ELSE pc' = NextAfterArmatures(armas) /\ UNCHANGED <<reports, result>>
    /\ UNCHANGED <<hostvars, opvars, exc, idoc, doc, frames, calls, entry, cursor, seen, snapvars>>

NewArmature(path) ==
    [selected |-> FALSE, isNew |-> TRUE, data |-> "file", skeleton_path |-> path,
     bone_forward |-> bone_forward, bone_up |-> bone_up, action |-> 0]

SkeletonPaths == <<PrimaryPath, secondary_skeleton>>

\* import_skeleton for the next pair of zip(doc.skeletons, paths) (line 277):
\* the armature object is created and linked, made active and edited; editing
\* (mode_set, import_bone, the assert of find_connected) may raise
ImportSkeleton ==
    /\ pc = "i_skeleton"
    /\ Len(armatures) < Min(idoc.skeletons, Len(SkeletonPaths))
    /\ objects' = Append(objects, NewArmature(SkeletonPaths[Len(armatures) + 1]))
    /\ active' = Len(objects) + 1
    /\ \E ok \in BOOLEAN :
          IF ok
          THEN /\ armatures' = Append(armatures, Len(objects) + 1)
               /\ UNCHANGED <<pc, reports, result>>
          ELSE /\ Raise("Skeleton import failed")
               /\ UNCHANGED armatures
    /\ UNCHANGED <<fps, frame_current, actions, tmp_exists, opvars, exc, idoc,
                   doc, frames, calls, entry, cursor, seen, snapvars>>

\* execute, lines 278-286: fail without skeletons, else select the new
\* armatures and make the first one active
ImportSkeletonsDone ==
    /\ pc = "i_skeleton"
    /\ Len(armatures) >= Min(idoc.skeletons, Len(SkeletonPaths))
    /\ IF Len(armatures) = 0
       THEN /\ Raise("File contains no skeletons")
            /\ UNCHANGED <<objects, active>>
       ELSE /\ objects' = [i \in 1..Len(objects) |->
                             IF i \in Range(armatures)
                             THEN [objects[i] EXCEPT !.selected = TRUE]
                             ELSE objects[i]]
            /\ active' = armatures[1]
            /\ pc' = NextAfterArmatures(armatures)
            /\ UNCHANGED <<reports, result>>
    /\ UNCHANGED <<fps, frame_current, actions, tmp_exists, opvars, exc,
                   armatures, idoc, doc, frames, calls, entry, cursor, seen, snapvars>>

\* execute, lines 302-307: one iteration of the while loop
ImportDuplicate ==
    /\ pc = "i_duplicate"
    /\ objects' = Append(objects, [objects[active] EXCEPT !.isNew = TRUE])
    /\ armatures' = Append(armatures, Len(objects) + 1)
    /\ pc' = NextAfterArmatures(armatures')
    /\ UNCHANGED <<fps, frame_current, active, actions, tmp_exists, opvars, exc,
                   idoc, doc, frames, reports, calls, result, entry, cursor, seen, snapvars>>

(***************************************************************************)
(* import_animation, import_transform, import_float                        *)
(***************************************************************************)
\* overrides.get(name, name) for the table built in lines 365-368; a later
\* bone replaces an earlier one with the same hkx_name
OverrideGet(bones, name) ==
    LET hits == {i \in 1..Len(bones) :
                    bones[i].hkx_name # "" /\ bones[i].hkx_name = name}
    IN IF hits = {} THEN name
       ELSE bones[CHOOSE i \in hits : \A j \in hits : j <= i].name

\* What action_new_fcurve does for the channels of one track: every channel
\* is created ("ok"), the channel at ch comes back as None ("none"), or the
\* creation of channel ch raises ("raise").
NoFailure == [at |-> 0, kind |-> "ok", ch |-> 0]

FailChannels == {1, 4}

FailureModes(ianim) ==
    {NoFailure} \cup
    [at : 1..Len(ianim.tracks), kind : {"none", "raise"}, ch : FailChannels]

TrackChannels(itrack) == IF itrack.datatype = "TRANSFORM" THEN Channels ELSE {1}

CreatedChannels(itrack, kind, ch) ==
    CASE kind = "ok" -> TrackChannels(itrack)
      [] kind = "none" -> TrackChannels(itrack) \ {ch}
      [] OTHER -> {c \in TrackChannels(itrack) : c < ch}

\* keys written whatever channels exist
WritesAlways(itrack, created) == TRUE

\* the test of line 502 / line 447: keys are written only when every channel exists
WritesKeys(itrack, created) == created = TrackChannels(itrack)

\* import_transform / import_float for one track
ImportTrack(itrack, name, kind, ch) ==
    LET created == CreatedChannels(itrack, kind, ch) IN
    [name |-> name,
     datatype |-> itrack.datatype,
     channels |-> created,
     keys |-> [c \in Channels |->
                 IF c \in created /\ WritesKeys(itrack, created)
                 THEN itrack.frames ELSE <<>>]]

RECURSIVE ImportTracks(_, _, _, _)
\* the loop of lines 371-375 from track j on: the tracks written, and
\* whether an exception ended the loop
ImportTracks(tracks, j, bones, fm) ==
    IF j > Len(tracks) THEN [tracks |-> <<>>, raised |-> FALSE]
    ELSE LET it == tracks[j]
             kind == IF fm.at = j THEN fm.kind ELSE "ok"
             name == IF it.datatype = "TRANSFORM"
                     THEN OverrideGet(bones, it.name) ELSE it.name
             t == ImportTrack(it, name, kind, fm.ch)
         IN IF kind = "raise" /\ fm.ch \in TrackChannels(it)
            THEN [tracks |-> <<t>>, raised |-> TRUE]
            ELSE LET rest == ImportTracks(tracks, j + 1, bones, fm)
                 IN [tracks |-> <<t>> \o rest.tracks, raised |-> rest.raised]

\* lines 378-380
ImportMarkers(annotations) ==
    [i \in 1..Len(annotations) |->
        [frame |-> annotations[i].frame, name |-> annotations[i].text]]

\* import_animation for the next pair of zip(doc.animations, armatures)
\* (line 310): the action is created, then filled
ImportAnimation ==
    /\ pc = "i_animation"
    /\ Len(actions) < Min(Len(idoc.animations), Len(armatures))
    /\ LET k == Len(actions) + 1
           ianim == idoc.animations[k]
           bones == BonesOf(objects[armatures[k]])
       IN \E fm \in FailureModes(ianim) :
             LET r == ImportTracks(ianim.tracks, 1, bones, fm) IN
             IF r.raised
             THEN /\ actions' = Append(actions, [tracks |-> r.tracks,
                                                 pose_markers |-> <<>>])
                  /\ Raise("F-Curve could not be created")
             ELSE /\ actions' = Append(actions,
                                   [tracks |-> r.tracks,
                                    pose_markers |-> ImportMarkers(ianim.annotations)])
                  /\ UNCHANGED <<pc, reports, result>>
    /\ UNCHANGED <<fps, frame_current, objects, active, tmp_exists, opvars, exc,
                   armatures, idoc, doc, frames, calls, entry, cursor, seen, snapvars>>

\* execute, lines 312-331: assign the actions, report success
ImportAssign ==
    /\ pc = "i_animation"
    /\ Len(actions) >= Min(Len(idoc.animations), Len(armatures))
    /\ objects' = [i \in 1..Len(objects) |->
                     IF \E k \in 1..Len(actions) : armatures[k] = i
                     THEN [objects[i] EXCEPT !.action =
                             CHOOSE k \in 1..Len(actions) : armatures[k] = i]
                     ELSE objects[i]]
    /\ Report("INFO", "Imported successfully")
    /\ result' = "FINISHED"
    /\ pc' = "done"
    /\ UNCHANGED <<fps, frame_current, active, actions, tmp_exists, opvars, exc,
                   armatures, idoc, doc, frames, calls, entry, cursor, seen, snapvars>>

ImportNext ==
    \/ ImportInvoke
    \/ ImportAxisConversion
    \/ ImportSetFramerate
    \/ ImportGetConverter
    \/ ImportRunConverter
    \/ ImportOpenDocument
    \/ ImportRemoveTmp
    \/ ImportGetSelected
    \/ ImportSkeleton
    \/ ImportSkeletonsDone
    \/ ImportDuplicate
    \/ ImportAnimation
    \/ ImportAssign

(***************************************************************************)
(* HKXExport                                                               *)
(***************************************************************************)
ExampleInterval == <<10, 40>>

Intervals == ((0..MaxFrame) \X (0..MaxFrame)) \cup {ExampleInterval}

\* pose markers of the action of an armature (frame, name), in iteration order
MarkersA == << [frame |-> 2, name |-> "hit"], [frame |-> 1, name |-> "step"] >>
MarkersB == << [frame |-> MaxFrame, name |-> "end"], [frame |-> 0, name |-> "start"],
               [frame |-> MaxFrame + 1, name |-> "late"] >>
MarkersC == << [frame |-> 25, name |-> "mid"], [frame |-> 5, name |-> "early"],
               [frame |-> 45, name |-> "late"] >>

\* animation_data.action of an armature: none, or an action with its pose
\* markers and the custom properties that have an F-Curve in it
HostActions ==
    { [present |-> FALSE, pose_markers |-> <<>>, keyed |-> <<>>],
      [present |-> TRUE, pose_markers |-> MarkersA, keyed |-> <<"weight">>],
      [present |-> TRUE, pose_markers |-> MarkersB, keyed |-> <<>>],
      [present |-> TRUE, pose_markers |-> MarkersC, keyed |-> <<"weight">>] }

\* what export_animation reads from the active armature: the number of
\* selected pose bones (the first ones of its bone list) and its action; it
\* returns at line 721 before reading the action when no pose bone is selected
Poses ==
    [bones : {0}, action : {[present |-> FALSE, pose_markers |-> <<>>, keyed |-> <<>>]}]
    \cup [bones : 1..MaxBones, action : HostActions]

\* invoke and the file dialog: the operator properties are set
ExportInvoke ==
    /\ pc = "idle"
    /\ \E f \in ForwardChoices, u \in UpChoices, s \in SecondaryChoices,
          iv \in Intervals :
          /\ bone_forward' = f
          /\ bone_up' = u
          /\ secondary_skeleton' = s
          /\ frame_interval' = iv
    /\ op' = "export"
    /\ pc' = "e_axis"
    /\ entry' = Snapshot
    /\ UNCHANGED <<hostvars, exc, armatures, idoc, doc, frames, reports, calls,
                   result, cursor, seen, snapvars>>

\* execute, line 621
ExportAxisConversion ==
    /\ pc = "e_axis"
    /\ IF AxisConversionThrows("Y", "Z", bone_forward, bone_up)
       THEN Raise("Invalid axis arguments")
       ELSE pc' = "e_converter" /\ UNCHANGED <<reports, result>>
    /\ UNCHANGED <<hostvars, opvars, exc, armatures, idoc, doc, frames, calls,
                   entry, cursor, seen, snapvars>>

\* execute, line 624 (get_converter)
ExportGetConverter ==
    /\ pc = "e_converter"
    /\ \E exists \in BOOLEAN :
          IF exists
          THEN pc' = "e_select" /\ UNCHANGED <<reports, result>>
          ELSE Raise("Converter tool not found")
    /\ UNCHANGED <<hostvars, opvars, exc, armatures, idoc, doc, frames, calls,
                   entry, cursor, seen, snapvars>>

\* the test of line 633
TooManyArmatures(n) == n > 2

\* execute, lines 627-634
ExportGetSelected ==
    /\ pc = "e_select"
    /\ LET armas == GetSelected(objects, active) IN
          /\ armatures' = armas
          /\ IF Len(armas) = 0 \/ active \notin Range(armas)
             THEN Raise("Needs an active Armature")
             ELSE IF TooManyArmatures(Len(armas))
             THEN Raise("Select at most two Armatures")
             ELSE pc' = "e_files" /\ UNCHANGED <<reports, result>>
    /\ UNCHANGED <<hostvars, opvars, exc, idoc, doc, frames, calls, entry,
                   cursor, seen, snapvars>>

\* the test of line 639
NeedsSecondary(n_armatures) == n_armatures > 1

\* execute, lines 637-640: os.path.exists of the skeleton files (the empty
\* path never exists)
ExportFindSkeletons ==
    /\ pc = "e_files"
    /\ \E primary_exists \in BOOLEAN,
          secondary_exists \in (IF secondary_skeleton = "" THEN {FALSE} ELSE BOOLEAN) :
          IF ~primary_exists
          THEN Raise("Primary skeleton file not found")
          ELSE IF NeedsSecondary(Len(armatures)) /\ ~secondary_exists
          THEN Raise("Secondary skeleton file not found")
          ELSE pc' = "e_interval" /\ UNCHANGED <<reports, result>>
    /\ UNCHANGED <<hostvars, opvars, exc, armatures, idoc, doc, frames, calls,
                   entry, cursor, seen, snapvars>>

\* the test of line 643 with >= for >
IntervalHasFramesOrEqual(iv) == iv[2] >= iv[1]

\* the test of line 643
IntervalHasFrames(iv) == iv[2] > iv[1]

\* execute, lines 643-644
ExportCheckInterval ==
    /\ pc = "e_interval"
    /\ IF ~IntervalHasFrames(frame_interval)
       THEN Raise("Frame interval is empty")
       ELSE pc' = "e_props" /\ UNCHANGED <<reports, result>>
    /\ UNCHANGED <<hostvars, opvars, exc, armatures, idoc, doc, frames, calls,
                   entry, cursor, seen, snapvars>>

\* execute, lines 647-650
ExportSaveProperties ==
    /\ pc = "e_props"
    /\ objects' = [i \in 1..Len(objects) |->
                     IF \E k \in 1..Min(Len(armatures), 2) : armatures[k] = i
                     THEN [objects[i] EXCEPT
                             !.skeleton_path =
                                 SkeletonPaths[CHOOSE k \in 1..Min(Len(armatures), 2) :
                                                  armatures[k] = i],
                             !.bone_forward = bone_forward,
                             !.bone_up = bone_up]
                     ELSE objects[i]]
    /\ pc' = "e_document"
    /\ UNCHANGED <<fps, frame_current, active, actions, tmp_exists, opvars, exc,
                   armatures, idoc, doc, frames, reports, calls, result, entry,
                   cursor, seen, snapvars>>

\* int() without round(): the quotient truncated
Truncate(num, den) == num \div den

\* Python's round() of the quotient num / den (den > 0, num >= 0): to the
\* nearest integer, a tie to the even one
Round(num, den) ==
    LET q == num \div den
        r == num % den
    IN IF 2 * r < den THEN q
       ELSE IF 2 * r > den THEN q + 1
       ELSE IF q % 2 = 0 THEN q ELSE q + 1

\* execute, lines 656-664: self.framestep is rate / SAMPLING_RATE, so
\* framesteps / self.framestep is framesteps * SAMPLING_RATE / rate
Frames(rate, iv) ==
    LET framesteps == iv[2] - iv[1]
    IN (IF rate # SAMPLING_RATE
        THEN Round(framesteps * SAMPLING_RATE, rate)
        ELSE framesteps) + 1

\* execute, lines 653-669
ExportCreateDocument ==
    /\ pc = "e_document"
    /\ frames' = Frames(fps, frame_interval)
    /\ IF NeedsRateWarning(fps)
       THEN Report("WARNING", "Sampling animation at 30 fps")
       ELSE UNCHANGED reports
    /\ doc' = [created |-> TRUE, frames |-> frames', framerate |-> SAMPLING_RATE,
               animations |-> <<>>]
    /\ cursor' = 1
    /\ pc' = "e_animation"
    /\ UNCHANGED <<hostvars, opvars, exc, armatures, idoc, calls, result, entry,
                   seen, snapvars>>


(***************************************************************************)
(* export_animation                                                        *)
(***************************************************************************)
\* line 731: the name override (if any) is the track name
TrackName(bone) == IF bone.hkx_name # "" THEN bone.hkx_name ELSE bone.name

\* the sample indices counted from 1
SampleKeysFromOne(n) == [i \in 1..n |-> i]

\* the keys of one track: add_key(i) for i in range(self.frames)
SampleKeys(n) == [i \in 1..n |-> i - 1]

\* lines 745-751: the timeline positions frame_interval[0] + i * framestep,
\* in units of 1/SAMPLING_RATE frame (framestep is rate / SAMPLING_RATE)
SamplePositions(rate, iv, n) ==
    [i \in 1..n |-> SAMPLING_RATE * iv[1] + (i - 1) * rate]

\* the test of line 814 with > for >= at the start of the interval
MarkerAfterStart(frame, iv) == frame > iv[1] /\ frame <= iv[2]

\* the test of line 814
MarkerInInterval(frame, iv) == frame >= iv[1] /\ frame <= iv[2]

\* line 816: (marker.frame - frame_interval[0]) / framestep + 1, as the
\* fraction num / den
AnnotationIndex(frame, rate, iv) ==
    [num |-> (frame - iv[1]) * SAMPLING_RATE + rate, den |-> rate]

\* lines 812-817
Annotations(markers, rate, iv) ==
    LET kept == SelectSeq(markers, LAMBDA m : MarkerInInterval(m.frame, iv))
    IN [i \in 1..Len(kept) |->
          [index |-> AnnotationIndex(kept[i].frame, rate, iv),
           text |-> kept[i].name]]

\* the current frame left where the last sample put it
FrameOfLastSample(current_frame, positions) ==
    positions[Len(positions)] \div SAMPLING_RATE

\* line 809: the current frame after the sampling loop
FrameAfterSampling(current_frame, positions) == current_frame

\* lines 724-817: the animation that export_animation adds for an armature
\* with selected pose bones
ExportedAnimation(obj, pose, index) ==
    LET pbones == SubSeq(BonesOf(obj), 1, Min(pose.bones, Len(BonesOf(obj))))
    IN [name |-> index,
        skeleton |-> obj.skeleton_path,
        tracks |-> [i \in 1..Len(pbones) |->
                      [name |-> TrackName(pbones[i]), keys |-> SampleKeys(frames)]],
        floats |-> [i \in 1..Len(pose.action.keyed) |->
                      [name |-> pose.action.keyed[i], keys |-> SampleKeys(frames)]],
        positions |-> SamplePositions(fps, frame_interval, frames),
        annotations |-> IF pose.action.present
                        THEN Annotations(pose.action.pose_markers, fps, frame_interval)
                        ELSE <<>>]

\* execute, lines 672-674: one iteration of the loop over the armatures
ExportAnimation ==
    /\ pc = "e_animation"
    /\ cursor <= Len(armatures)
    /\ active' = armatures[cursor]
    /\ \E pose \in Poses :
          /\ seen' = Append(seen, [armature |-> armatures[cursor], pose |-> pose])
          /\ IF pose.bones = 0
             THEN /\ Report("WARNING", "No bones selected, ignoring")
                  /\ UNCHANGED <<doc, frame_current>>
             ELSE LET a == ExportedAnimation(objects[armatures[cursor]], pose,
                                             Len(doc.animations))
                  IN /\ doc' = [doc EXCEPT !.animations = Append(@, a)]
                     /\ frame_current' = FrameAfterSampling(frame_current, a.positions)
                     /\ UNCHANGED reports
    /\ cursor' = cursor + 1
    /\ UNCHANGED <<fps, objects, actions, tmp_exists, opvars, pc, exc, armatures,
                   idoc, frames, calls, result, entry, snapvars>>

\* line 677: the active object after the loop
ActiveAfterExport(saved, last) == saved

\* execute, lines 677-679
ExportRestoreActive ==
    /\ pc = "e_animation"
    /\ cursor > Len(armatures)
    /\ active' = ActiveAfterExport(entry.active, active)
    /\ pc' = IF Len(doc.animations) # 0 THEN "e_save" ELSE "e_finish"
    /\ UNCHANGED <<fps, frame_current, objects, actions, tmp_exists, opvars, exc,
                   armatures, idoc, doc, frames, reports, calls, result, entry,
                   cursor, seen, snapvars>>

\* execute, line 683: doc.save writes the temporary file, or fails with or
\* without leaving a file behind
ExportSaveDocument ==
    /\ pc = "e_save"
    /\ \E outcome \in {"saved", "partial", "failed"} :
          /\ tmp_exists' = (outcome # "failed")
          /\ IF outcome = "saved"
             THEN exc' = "" /\ pc' = "e_run"
             ELSE exc' = "Document could not be written" /\ pc' = "e_finally"
    /\ UNCHANGED <<fps, frame_current, objects, active, actions, opvars,
                   armatures, idoc, doc, frames, reports, calls, result, entry,
                   cursor, seen, snapvars>>

\* lines 686-696 (output_format keeps its default 'SE')
ExportArgs ==
    <<"pack", "AMD64", "tmp", "out", PrimaryPath>>
    \o (IF Len(doc.animations) > 1 THEN <<secondary_skeleton>> ELSE <<>>)

\* execute, lines 698-701
ExportRunConverter ==
    /\ pc = "e_run"
    /\ calls' = Append(calls, ExportArgs)
    /\ \E code \in {0, 1} :
          exc' = IF code # 0 THEN "Converter returned non-zero" ELSE ""
    /\ pc' = "e_finally"
    /\ UNCHANGED <<hostvars, opvars, armatures, idoc, doc, frames, reports,
                   result, entry, cursor, seen, snapvars>>

\* os.remove(tmp_file)
TmpAfterExportFinally(exists) == FALSE

\* execute, lines 703-704: the finally clause; os.remove raises when the file
\* is not there; then the pending exception
ExportRemoveTmp ==
    /\ pc = "e_finally"
    /\ tmp_exists' = TmpAfterExportFinally(tmp_exists)
    /\ IF ~tmp_exists
       THEN Raise("No such file or directory")
       ELSE IF exc # ""
       THEN Raise(exc)
       ELSE pc' = "e_finish" /\ UNCHANGED <<reports, result>>
    /\ exc' = ""
    /\ UNCHANGED <<fps, frame_current, objects, active, actions, opvars,
                   armatures, idoc, doc, frames, calls, entry, cursor, seen,
                   snapvars>>

\* execute, lines 710-711
ExportFinish ==
    /\ pc = "e_finish"
    /\ Report("INFO", "Exported successfully")
    /\ result' = "FINISHED"
    /\ pc' = "done"
    /\ UNCHANGED <<hostvars, opvars, exc, armatures, idoc, doc, frames, calls,
                   entry, cursor, seen, snapvars>>

ExportNext ==
    \/ ExportInvoke
    \/ ExportAxisConversion
    \/ ExportGetConverter
    \/ ExportGetSelected
    \/ ExportFindSkeletons
    \/ ExportCheckInterval
    \/ ExportSaveProperties
    \/ ExportCreateDocument
    \/ ExportAnimation
    \/ ExportRestoreActive
    \/ ExportSaveDocument
    \/ ExportRunConverter
    \/ ExportRemoveTmp
    \/ ExportFinish

Next == ImportNext \/ ExportNext

Spec == Init /\ [][Next]_vars


(***************************************************************************)
(* The snap pass of import_transform (lines 513-537) and export_animation  *)
(* (lines 757-777).                                                        *)
(*                                                                         *)
(* Numbers are fixed-point: translation and scale components count         *)
(* millionths (1.0 is Micro), quaternion components count 1/RotUnit        *)
(* (1.0 is RotUnit, the largest unit whose squares still add up in 32      *)
(* bits).  Thresholds are in millionths, as the literals of the source.    *)
(***************************************************************************)
Micro == 1000 * 1000
RotUnit == 3 * 10000

ThrLocImport == 100     \* thr_loc = 1e-4
ThrSclImport == 100     \* thr_scl = 1e-4
ThrLocExport == 10      \* thr_loc = 1e-5
ThrSclExport == 10      \* thr_scl = 1e-5
ThrRot == 1000          \* thr_rot = 1e-3, both sites

Sites == {"import", "export"}

ThrLoc(site) == IF site = "import" THEN ThrLocImport ELSE ThrLocExport
ThrScl(site) == IF site = "import" THEN ThrSclImport ELSE ThrSclExport

RECURSIVE IsqrtIter(_, _)
\* Newton's iteration from above: the integer part of the square root of n
IsqrtIter(n, x) ==
    LET y == (x + n \div x) \div 2
    IN IF y >= x THEN x ELSE IsqrtIter(n, y)

\* the square root of n, to the nearest integer
Sqrt(n) ==
    IF n = 0 THEN 0
    ELSE LET r == IsqrtIter(n, 46340)
         IN IF n - r * r > r THEN r + 1 ELSE r

\* a / b to the nearest integer (b > 0)
RoundDiv(a, b) ==
    LET m == Abs(a)
        q == m \div b
        r == m % b
        v == IF 2 * r >= b THEN q + 1 ELSE q
    IN IF a < 0 THEN 0 - v ELSE v

\* Quaternion.normalize(): divide by the length (a zero quaternion is left alone)
Normalize(q) ==
    LET len == Sqrt(q[1] * q[1] + q[2] * q[2] + q[3] * q[3] + q[4] * q[4])
    IN IF len = 0 THEN q
       ELSE [i \in 1..4 |-> RoundDiv(q[i] * RotUnit, len)]

\* abs(c) < thr for a quaternion component c: c / RotUnit < thr / Micro
SmallRot(c, thr) == Abs(c) * (Micro \div 10000) < thr * (RotUnit \div 10000)

\* lines 516-520 / 758-762
SnapLoc(loc, thr) == [i \in 1..3 |-> IF Abs(loc[i]) < thr THEN 0 ELSE loc[i]]

\* lines 522-530 / 763-771: normalize, snap w to 1 and x, y, z to 0, normalize
SnapRot(rot, thr) ==
    LET q == Normalize(rot)
    IN Normalize(<< IF SmallRot(q[1] - RotUnit, thr) THEN RotUnit ELSE q[1],
                    IF SmallRot(q[2], thr) THEN 0 ELSE q[2],
                    IF SmallRot(q[3], thr) THEN 0 ELSE q[3],
                    IF SmallRot(q[4], thr) THEN 0 ELSE q[4] >>)

\* lines 532-537 / 772-777
SnapScl(scl, thr) ==
    [i \in 1..3 |-> IF Abs(scl[i] - Micro) < thr THEN Micro ELSE scl[i]]

\* the whole pass on a decomposed transform, with the thresholds of its site
Snap(t) ==
    [site |-> t.site,
     loc |-> SnapLoc(t.loc, ThrLoc(t.site)),
     rot |-> SnapRot(t.rot, ThrRot),
     scl |-> SnapScl(t.scl, ThrScl(t.site))]

LocInputs == { <<0, 5, -50>>, <<9, 10, 100>>, <<-99, 1000 * 1000, 0>> }

SclInputs == { <<Micro, Micro + 5, Micro - 50>>,
               <<Micro + 10, Micro - 100, 2 * Micro>> }

RotInputs ==
    { <<30000, 0, 0, 0>>,          \* identity
      <<-30000, 0, 0, 0>>,
      <<15000, 0, 0, 0>>,          \* not normalized
      <<0, 30000, 0, 0>>,
      <<18000, 24000, 0, 0>>,
      <<18000, 0, 24000, 20>>,     \* z below the threshold
      <<21213, 21213, 20, -20>>,
      <<21213, 0, 0, -21213>>,
      <<29999, 45, 20, 0>>,        \* w within the threshold of 1, x above it
      <<29985, 900, 0, 0>>,
      <<29971, 0, 0, 1319>>,       \* w = 0.99903, z = 0.04397
      <<29971, 20, -1319, 0>> }

Transforms == [site : Sites, loc : LocInputs, rot : RotInputs, scl : SclInputs]

SnapInit ==
    /\ fps = SAMPLING_RATE
    /\ frame_current = 1
    /\ objects = <<>>
    /\ active = 0
    /\ actions = <<>>
    /\ tmp_exists = FALSE
    /\ IdleInit
    /\ entry = Snapshot
    /\ pc = "s_input"
    /\ xf \in Transforms
    /\ xf1 = NoXf /\ xf2 = NoXf
    /\ export_scale = DefaultScale /\ import_scale = DefaultScale
    /\ BoneIdle
    /\ NameIdle

\* a first pass over the input
SnapOnce ==
    /\ pc = "s_input"
    /\ xf1' = Snap(xf)
    /\ pc' = "s_once"
    /\ UNCHANGED <<hostvars, opvars, exc, armatures, idoc, doc, frames, reports,
                   calls, result, entry, cursor, seen, xf, xf2, scalevars,
                   bonevars, namevars>>

\* a second pass over the result of the first
SnapTwice ==
    /\ pc = "s_once"
    /\ xf2' = Snap(xf1)
    /\ pc' = "s_twice"
    /\ UNCHANGED <<hostvars, opvars, exc, armatures, idoc, doc, frames, reports,
                   calls, result, entry, cursor, seen, xf, xf1, scalevars,
                   bonevars, namevars>>

SnapNext == SnapOnce \/ SnapTwice

SnapSpec == SnapInit /\ [][SnapNext]_vars

\* C10: Snap is idempotent: a second pass with the same thresholds leaves the
\* result of the first pass as it is.
C10_SnapIdempotent == pc = "s_twice" => xf2 = xf1


(***************************************************************************)
(* The length scale: export_animation multiplies the translation of every  *)
(* key by length_scale (line 798), import_transform divides it (line 508). *)
(* With the identity axis convention framerot is the identity, and         *)
(* composing and decomposing the matrix returns the translation as it is.  *)
(* A scale is the fraction num / den; translations count millionths.       *)
(***************************************************************************)
Scales == { [num |-> 1, den |-> 10], [num |-> 1, den |-> 2], DefaultScale,
            [num |-> 2, den |-> 1], [num |-> 10, den |-> 1] }

Inverse(s) == [num |-> s.den, den |-> s.num]

\* loc /= length_scale with the division replaced by a product
ImportScaleTimes(c, length_scale) == RoundDiv(c * length_scale.num, length_scale.den)

\* line 508: loc /= self.length_scale, one component
ImportScale(c, length_scale) == RoundDiv(c * length_scale.den, length_scale.num)

\* line 798: loc *= self.length_scale, one component
ExportScale(c, length_scale) == RoundDiv(c * length_scale.num, length_scale.den)

\* lines 755-798: the translation of the key that export writes for a pose
\* translation loc
ExportKeyLoc(loc, length_scale) ==
    LET snapped == SnapLoc(loc, ThrLocExport)
    IN [i \in 1..3 |-> ExportScale(snapped[i], length_scale)]

\* lines 507-520: the translation that import writes for a key translation loc
ImportKeyLoc(loc, length_scale) ==
    SnapLoc([i \in 1..3 |-> ImportScale(loc[i], length_scale)], ThrLocImport)

LocSamples ==
    { <<0, 0, 0>>, <<5, -9, 10>>, <<50, -99, 100>>, <<150, 0, -150>>,
      <<1000, 20000, -300000>>, <<Micro, 0, 0>>, <<0, 0 - Micro, 5>>,
      <<123456, 654321, -111112>>, <<2500000, -2500000, 90>>,
      <<Micro + 10, Micro - 10, 101>> }

RoundTripInit ==
    /\ fps = SAMPLING_RATE
    /\ frame_current = 1
    /\ objects = <<>>
    /\ active = 0
    /\ actions = <<>>
    /\ tmp_exists = FALSE
    /\ IdleInit
    /\ entry = Snapshot
    /\ pc = "r_pose"
    /\ \E loc \in LocSamples : xf = [NoXf EXCEPT !.site = "host", !.loc = loc]
    /\ xf1 = NoXf /\ xf2 = NoXf
    /\ export_scale \in Scales
    /\ import_scale = DefaultScale
    /\ BoneIdle
    /\ NameIdle

\* export writes the key of the pose translation
ExportKey ==
    /\ pc = "r_pose"
    /\ xf1' = [NoXf EXCEPT !.site = "file", !.loc = ExportKeyLoc(xf.loc, export_scale)]
    /\ pc' = "r_file"
    /\ UNCHANGED <<hostvars, opvars, exc, armatures, idoc, doc, frames, reports,
                   calls, result, entry, cursor, seen, xf, xf2, scalevars,
                   bonevars, namevars>>

\* import reads the key back, with the length scale of the export or with
\* its inverse
ImportKey ==
    /\ pc = "r_file"
    /\ \E s \in {export_scale, Inverse(export_scale)} :
          /\ import_scale' = s
          /\ xf2' = [NoXf EXCEPT !.site = "host", !.loc = ImportKeyLoc(xf1.loc, s)]
    /\ pc' = "r_host"
    /\ UNCHANGED <<hostvars, opvars, exc, armatures, idoc, doc, frames, reports,
                   calls, result, entry, cursor, seen, xf, xf1, export_scale,
                   bonevars, namevars>>

RoundTripNext == ExportKey \/ ImportKey

RoundTripSpec == RoundTripInit /\ [][RoundTripNext]_vars

\* every component of b within the import snap threshold (1e-4) of a
WithinTolerance(a, b) == \A i \in 1..3 : Abs(a[i] - b[i]) <= ThrLocImport

\* C11 as stated: exporting with length scale L and importing the result with
\* length scale 1/L reproduces the original translation within tolerance.
C11_RoundTripInverseScale ==
    (pc = "r_host" /\ import_scale = Inverse(export_scale)) =>
        WithinTolerance(xf.loc, xf2.loc)

\* C11, amended: exporting with length scale L and importing the result with
\* the same length scale L reproduces the original translation within the
\* import snap threshold (1e-4 for each component).
C11_RoundTripSameScale ==
    (pc = "r_host" /\ import_scale = export_scale) =>
        WithinTolerance(xf.loc, xf2.loc)

C11_Witness ==
    /\ pc = "r_host"
    /\ export_scale = [num |-> 10, den |-> 1]
    /\ import_scale = export_scale
    /\ xf.loc = <<123456, 654321, -111112>>
    /\ xf1.loc = <<1234560, 6543210, -1111120>>
    /\ xf2.loc = xf.loc


(***************************************************************************)
(* find_connected and the bone length that import_bone sets.               *)
(*                                                                         *)
(* Positions count millionths.  The y axis of the bone is a signed         *)
(* coordinate axis, so the scalar projection of the separation is a        *)
(* component of it and the rejection is made of the other two.  Lengths    *)
(* are compared through their squares, which are only formed of            *)
(* components that are already known to be below epsilon.                  *)
(***************************************************************************)
MaxChildren == 3

Epsilon == 10           \* epsilon = 1e-5 (line 336)
UnitLength == Micro     \* bone.length = 1.0 (line 387)

SumSq(v) == v[1] * v[1] + v[2] * v[2] + v[3] * v[3]

\* v.length > eps
LongerThan(v, eps) ==
    \/ \E i \in 1..3 : Abs(v[i]) > eps
    \/ SumSq(v) > eps * eps

\* v.length < eps
ShorterThan(v, eps) ==
    /\ \A i \in 1..3 : Abs(v[i]) < eps
    /\ SumSq(v) < eps * eps

\* line 339: separation = child.matrix.to_translation() - our_loc
Separation(bone, child) == [i \in 1..3 |-> child[i] - bone.loc[i]]

\* line 347: separation.dot(bone.y_axis)
ScalarProjection(separation, y_axis) == y_axis.sign * separation[y_axis.axis]

\* line 350: separation - scalar_projection * bone.y_axis
Rejection(separation, y_axis) ==
    [i \in 1..3 |-> IF i = y_axis.axis THEN 0 ELSE separation[i]]

\* the square root of a * a + s to the nearest integer, for 0 <= s <
\* Epsilon * Epsilon: a + k for the largest k with (a + k - 1/2)^2 <= a * a + s
Hypot(a, s) ==
    LET Fits(k) == 2 * a * k + k * k - a - k < s
    IN a + CHOOSE k \in 0..Epsilon :
              Fits(k) /\ \A j \in 0..Epsilon : Fits(j) => j <= k

\* line 352: separation.length of a separation whose rejection is below epsilon
SeparationLength(separation, y_axis) ==
    Hypot(Abs(separation[y_axis.axis]), SumSq(Rejection(separation, y_axis)))

\* the tests of lines 341-351 without the test of the side (line 349)
ConnectedEitherSide(bone, child) ==
    LET separation == Separation(bone, child)
    IN /\ LongerThan(separation, Epsilon)
       /\ ShorterThan(Rejection(separation, bone.y_axis), Epsilon)

\* the tests of lines 341, 349 and 351 on one child
Connected(bone, child) ==
    LET separation == Separation(bone, child)
    IN /\ LongerThan(separation, Epsilon)
       /\ ScalarProjection(separation, bone.y_axis) >= 0
       /\ ShorterThan(Rejection(separation, bone.y_axis), Epsilon)

\* find_connected: the first connected child and the distance to it, or
\* (None, None), here child 0
FindConnected(bone, children) ==
    LET hits == {i \in 1..Len(children) : Connected(bone, children[i])}
    IN IF hits = {} THEN [child |-> 0, length |-> 0]
       ELSE LET first == CHOOSE i \in hits : \A j \in hits : i <= j
            IN [child |-> first,
                length |-> SeparationLength(Separation(bone, children[first]),
                                            bone.y_axis)]

\* positions of the children of a bone, as read from the skeleton
ChildPositions ==
    { <<0, Micro, 0>>, <<0, 0 - Micro, 0>>, <<100000, Micro, 0>>,
      <<0, 5, 0>>, <<9, 12, 0>>, <<6, 2 * Micro, -7>>, <<0, 0, 0>>,
      <<8, 500000, 8>> }

BoneAxes == { [axis |-> 2, sign |-> 1], [axis |-> 2, sign |-> -1],
              [axis |-> 1, sign |-> 1] }

BoneOrigins == { <<0, 0, 0>>, <<0, Micro, 0>> }

BoneInit ==
    /\ fps = SAMPLING_RATE
    /\ frame_current = 1
    /\ objects = <<>>
    /\ active = 0
    /\ actions = <<>>
    /\ tmp_exists = FALSE
    /\ IdleInit
    /\ entry = Snapshot
    /\ pc = "b_children"
    /\ xf = NoXf /\ xf1 = NoXf /\ xf2 = NoXf
    /\ export_scale = DefaultScale /\ import_scale = DefaultScale
    /\ ebone \in [loc : BoneOrigins, y_axis : BoneAxes,
                   children : SeqsUpTo(ChildPositions, MaxChildren)]
    /\ ebone_child = 0
    /\ ebone_length = UnitLength
    /\ NameIdle

\* import_bone, lines 436-440, for a bone whose children are imported
ImportBone ==
    /\ pc = "b_children"
    /\ LET found == FindConnected(ebone, ebone.children)
       IN /\ ebone_child' = found.child
          /\ ebone_length' = IF found.child # 0 THEN found.length ELSE ebone_length
    /\ pc' = "b_done"
    /\ UNCHANGED <<hostvars, opvars, exc, armatures, idoc, doc, frames, reports,
                   calls, result, entry, cursor, seen, xf, xf1, xf2, scalevars,
                   ebone, namevars>>

BoneNext == ImportBone

BoneSpec == BoneInit /\ [][BoneNext]_vars

\* the component of the offset of child i along the y axis of the bone
Along(i) == ebone.y_axis.sign * (ebone.children[i][ebone.y_axis.axis]
                                 - ebone.loc[ebone.y_axis.axis])

\* the components of the offset of child i across the y axis of the bone
Across(i) ==
    LET other == (1..3) \ {ebone.y_axis.axis}
        a == CHOOSE c \in other : \A d \in other : c <= d
        b == CHOOSE c \in other : \A d \in other : d <= c
    IN << ebone.children[i][a] - ebone.loc[a], ebone.children[i][b] - ebone.loc[b] >>

AcrossSq(i) == Across(i)[1] * Across(i)[1] + Across(i)[2] * Across(i)[2]

\* child i is ahead of the bone on its y axis: farther than epsilon from the
\* origin, not behind it, and off the axis by less than epsilon
Qualifies(i) ==
    /\ Along(i) >= 0
    /\ Abs(Across(i)[1]) < Epsilon /\ Abs(Across(i)[2]) < Epsilon
    /\ AcrossSq(i) < Epsilon * Epsilon
    /\ (Along(i) > Epsilon \/ Along(i) * Along(i) + AcrossSq(i) > Epsilon * Epsilon)

Qualifying == {i \in 1..Len(ebone.children) : Qualifies(i)}

FirstQualifying == CHOOSE i \in Qualifying : \A j \in Qualifying : i <= j

BoneNames == <<"Root", "Hand.L", "Hand.R">>

HkxNames == {"", "NPC Root", "NPC Hand", "Root"}

\* the bone lists of an armature: the first k names, each with an hkx_name
Armatures ==
    UNION { { [i \in 1..k |-> [name |-> BoneNames[i], hkx_name |-> h[i]]] :
              h \in [1..k -> HkxNames] } : k \in 1..Len(BoneNames) }

NameInit ==
    /\ fps = SAMPLING_RATE
    /\ frame_current = 1
    /\ objects = <<>>
    /\ active = 0
    /\ actions = <<>>
    /\ tmp_exists = FALSE
    /\ IdleInit
    /\ entry = Snapshot
    /\ pc = "n_bone"
    /\ xf = NoXf /\ xf1 = NoXf /\ xf2 = NoXf
    /\ export_scale = DefaultScale /\ import_scale = DefaultScale
    /\ BoneIdle
    /\ arm_bones \in Armatures
    /\ pbone = 0 /\ track_name = "" /\ bone_name = ""

\* export_animation, lines 731-732, for one selected pose bone
ExportTrackName ==
    /\ pc = "n_bone"
    /\ \E b \in 1..Len(arm_bones) :
          /\ pbone' = b
          /\ track_name' = TrackName(arm_bones[b])
    /\ pc' = "n_track"
    /\ UNCHANGED <<hostvars, opvars, exc, armatures, idoc, doc, frames, reports,
                   calls, result, entry, cursor, seen, xf, xf1, xf2, scalevars,
                   bonevars, arm_bones, bone_name>>

\* import_animation, lines 365-373, for that track on the same armature
ImportTrackName ==
    /\ pc = "n_track"
    /\ bone_name' = OverrideGet(arm_bones, track_name)
    /\ pc' = "n_resolved"
    /\ UNCHANGED <<hostvars, opvars, exc, armatures, idoc, doc, frames, reports,
                   calls, result, entry, cursor, seen, xf, xf1, xf2, scalevars,
                   bonevars, arm_bones, pbone, track_name>>

NameNext == ExportTrackName \/ ImportTrackName

NameSpec == NameInit /\ [][NameNext]_vars

\* C13: for every bone b of an armature, the track name that export gives b
\* (its hkx_name when that is not empty, its host name otherwise) is resolved
\* by import on the same armature to the host name of b.
C13_OverrideInverse ==
    /\ pc \in {"n_track", "n_resolved"} =>
          track_name = (IF arm_bones[pbone].hkx_name # "" THEN arm_bones[pbone].hkx_name
                        ELSE arm_bones[pbone].name)
    /\ pc = "n_resolved" => bone_name = arm_bones[pbone].name


(***************************************************************************)
(* Properties of HKXImport.execute and HKXExport.execute                   *)
(***************************************************************************)
\* the armatures that were selected when execute was called
SelectedAtEntry == {i \in 1..Len(entry.objects) : entry.objects[i].selected}

LastReport == reports[Len(reports)]

Cancelled == pc = "done" /\ result = "CANCELLED" /\ LastReport.type = "ERROR"

\* every track and annotation of every animation of the document is in the host
AllTranscoded ==
    /\ Len(actions) = Len(idoc.animations)
    /\ \A k \in 1..Len(actions) :
          LET ianim == idoc.animations[k]
              action == actions[k]
          IN /\ Len(action.tracks) = Len(ianim.tracks)
             /\ \A j \in 1..Len(ianim.tracks) :
                   \A c \in (IF ianim.tracks[j].datatype = "TRANSFORM"
                             THEN 1..10 ELSE {1}) :
                      /\ c \in action.tracks[j].channels
                      /\ action.tracks[j].keys[c] = ianim.tracks[j].frames
             /\ Len(action.pose_markers) = Len(ianim.annotations)

\* nothing that the operation created is left in the host
NothingRetained ==
    /\ actions = <<>>
    /\ Len(objects) = Len(entry.objects)

\* C1: an import has no partial success: it returns FINISHED with every track
\* and annotation written to the host, or CANCELLED with no armature, action,
\* F-Curve, keyframe or marker of the operation left in the host.
C1_NoPartialSuccess ==
    (op = "import" /\ pc = "done") =>
        \/ result = "FINISHED" /\ AllTranscoded
        \/ result = "CANCELLED" /\ NothingRetained

\* C2: an import with at least one armature selected, where the number of
\* selected armatures differs from the number of animations of the document or
\* the active object is not a selected armature, is reported as an error and
\* returns CANCELLED with no action (so no track and no marker) created.
C2_MismatchCancels ==
    ( /\ op = "import"
      /\ idoc.loaded
      /\ pc \notin {"i_finally", "i_select"}
      /\ SelectedAtEntry # {}
      /\ \/ Cardinality(SelectedAtEntry) # Len(idoc.animations)
         \/ entry.active \notin SelectedAtEntry )
    => (Cancelled /\ actions = <<>> /\ objects = entry.objects)

C2_Witness ==
    /\ op = "import" /\ pc = "done" /\ idoc.loaded
    /\ Cardinality(SelectedAtEntry) = 3
    /\ Len(idoc.animations) = 2
    /\ entry.active \in SelectedAtEntry
    /\ result = "CANCELLED"

\* all the selected armatures were looked at, and none has a selected pose bone
NothingToExport ==
    /\ armatures # <<>>
    /\ Len(seen) = Len(armatures)
    /\ \A i \in 1..Len(seen) : seen[i].pose.bones = 0

\* C3: an export with no pose bone selected in any selected armature is fatal:
\* it reports an error and returns CANCELLED, and no converter is invoked.
C3_EmptySelectionIsFatal ==
    (op = "export" /\ pc = "done" /\ NothingToExport) =>
        (Cancelled /\ calls = <<>>)

EmptyInterval == frame_interval[2] <= frame_interval[1]

BadSelection ==
    entry.active \notin SelectedAtEntry \/ Cardinality(SelectedAtEntry) > 2

SkeletonMissing ==
    /\ pc = "done"
    /\ LastReport.msg \in {"Primary skeleton file not found",
                           "Secondary skeleton file not found"}

\* no document, no stored property written, no frame sampled, no converter run
ExportUntouched ==
    /\ ~doc.created
    /\ objects = entry.objects
    /\ seen = <<>>
    /\ frame_current = entry.frame_current
    /\ calls = <<>>

\* C4: an export whose preconditions fail (no active selected armature, more
\* than two armatures selected, a skeleton file missing, an interval whose end
\* is not greater than its start) returns CANCELLED, and at no point has it
\* created the document, written a stored property, sampled a frame or
\* invoked the converter.
C4_PreconditionsFirst ==
    (op = "export" /\ (BadSelection \/ EmptyInterval \/ SkeletonMissing)) =>
        /\ ExportUntouched
        /\ pc = "done" => Cancelled

C4_Witness ==
    /\ op = "export" /\ pc = "done"
    /\ ~BadSelection
    /\ frame_interval[2] = frame_interval[1]
    /\ LastReport.msg = "Frame interval is empty"

\* C5: when the converter fails or the document cannot be written or read the
\* operation returns CANCELLED, and whenever execute returns the temporary
\* file does not exist.
C5_TmpRemoved ==
    [][ /\ (pc \in {"i_finally", "e_finally"} /\ exc # "") =>
              (pc' = "done" /\ result' = "CANCELLED")
        /\ pc' = "done" => ~tmp_exists' ]_vars

C5_Witness ==
    /\ pc = "done" /\ result = "CANCELLED" /\ calls # <<>>
    /\ LastReport.msg = "Converter returned non-zero"
    /\ ~tmp_exists

Opposite(a) ==
    CASE a = "X" -> "-X" [] a = "-X" -> "X"
      [] a = "Y" -> "-Y" [] a = "-Y" -> "Y"
      [] a = "Z" -> "-Z" [] OTHER -> "Z"

InvalidAxes == bone_up \in {bone_forward, Opposite(bone_forward)}

\* C6: with an invalid forward/up pair the operation fails at its first step:
\* it returns CANCELLED with the host as it was (frame rate included), no
\* converter invoked, no temporary file, no document and no track processed.
C6_InvalidAxesFirst ==
    (op \in {"import", "export"} /\ InvalidAxes) =>
        /\ pc \in {"i_axis", "e_axis", "done"}
        /\ Snapshot = entry
        /\ calls = <<>> /\ ~tmp_exists
        /\ idoc = NoIDoc /\ doc = NoDoc /\ seen = <<>>
        /\ pc = "done" => (Cancelled /\ Len(reports) = 1)

C6_Witness ==
    /\ op = "import" /\ pc = "done" /\ InvalidAxes
    /\ bone_up = Opposite(bone_forward)
    /\ entry.fps # SAMPLING_RATE /\ fps = entry.fps
    /\ result = "CANCELLED"

RateWarned ==
    \E i \in 1..Len(reports) :
        /\ reports[i].type = "WARNING"
        /\ reports[i].msg \in {"Setting framerate", "Sampling animation at 30 fps"}

RateHandled ==
    /\ (op = "import" /\ pc \in {"i_axis", "i_fps"}) => ~RateWarned
    /\ (op = "import" /\ pc \notin {"i_axis", "i_fps"} /\ ~InvalidAxes) =>
          (fps = 30 /\ (RateWarned <=> entry.fps # 30))
    /\ (op = "export" /\ ~doc.created) => ~RateWarned
    /\ (op = "export" /\ doc.created) =>
          (doc.framerate = 30 /\ fps = entry.fps /\ (RateWarned <=> fps # 30))

\* C7: a host frame rate other than 30 is reported, not fatal: import sets the
\* scene rate to 30 and export writes rate 30 to the document, each with a
\* warning exactly when the host rate is not 30, and the step that handles
\* the rate never ends the operation.
C7_RateMismatchRecoverable ==
    /\ []RateHandled
    /\ [][(pc \in {"i_fps", "e_document"}) => (pc' # "done")]_vars

C7_Witness ==
    /\ op = "import" /\ pc = "done" /\ result = "FINISHED"
    /\ entry.fps = 24 /\ fps = 30 /\ RateWarned
    /\ actions # <<>>

\* C8: the number of frames written to the document and sampled for every
\* animation is the integer nearest to (end - start) / frame_step, plus one,
\* where frame_step = rate / 30; at rate 30 it is end - start + 1.
C8_FrameCount ==
    (op = "export" /\ doc.created) =>
        LET n == frame_interval[2] - frame_interval[1]
            k == doc.frames - 1
        IN /\ frames = doc.frames
           /\ k >= 0
           /\ 2 * Abs(k * fps - n * 30) <= fps
           /\ fps = 30 => doc.frames = n + 1
           /\ \A a \in 1..Len(doc.animations) :
                 Len(doc.animations[a].positions) = doc.frames

C8_Witness ==
    /\ op = "export" /\ pc = "done" /\ result = "FINISHED"
    /\ fps = 24
    /\ frame_interval = <<0, 3>>
    /\ doc.frames = 5
    /\ Len(doc.animations) = 2

\* the poses of the armatures that export_animation made an animation of
ExportedPoses == SelectSeq(seen, LAMBDA r : r.pose.bones > 0)

InsideInterval(m) == m.frame \in frame_interval[1]..frame_interval[2]

\* the number of markers among the first i that lie inside the interval
InsideUpTo(markers, i) == Cardinality({j \in 1..i : InsideInterval(markers[j])})

\* C9: for every exported animation, the markers of the armature's action that
\* lie in [start, end] - and only those - are annotations, in marker order,
\* each with the marker's text and index (frame - start) / frame_step + 1.
C9_AnnotationRemap ==
    (op = "export" /\ doc.created) =>
        /\ Len(ExportedPoses) = Len(doc.animations)
        /\ \A a \in 1..Len(doc.animations) :
              LET markers == ExportedPoses[a].pose.action.pose_markers
                  ann == doc.animations[a].annotations
              IN /\ Len(ann) = InsideUpTo(markers, Len(markers))
                 /\ \A i \in 1..Len(markers) :
                       InsideInterval(markers[i]) =>
                          LET x == ann[InsideUpTo(markers, i)] IN
                          /\ x.text = markers[i].name
                          /\ (x.index.num - x.index.den) * fps =
                             (markers[i].frame - frame_interval[1]) * 30 * x.index.den

C9_Witness ==
    /\ op = "export" /\ pc = "done" /\ result = "FINISHED"
    /\ fps = 30
    /\ frame_interval = <<10, 40>>
    /\ \E a \in 1..Len(doc.animations) :
          /\ ExportedPoses[a].pose.action.pose_markers = MarkersC
          /\ Len(doc.animations[a].annotations) = 1
          /\ doc.animations[a].annotations[1].text = "mid"
          /\ doc.animations[a].annotations[1].index.num =
                16 * doc.animations[a].annotations[1].index.den

\* the transform tracks and the float tracks of an animation
AllTracks(anim) == Range(anim.tracks) \cup Range(anim.floats)

\* C14: every exported animation has one transform track for each selected
\* pose bone and one float track for each keyed custom property, and each of
\* these tracks holds the keys 0, 1, ..., frames - 1 in this order (so
\* strictly increasing), frames being the frame count of the document.
C14_OneKeyPerSample ==
    (op = "export" /\ doc.created) =>
        /\ Len(ExportedPoses) = Len(doc.animations)
        /\ \A a \in 1..Len(doc.animations) :
              LET anim == doc.animations[a]
                  pose == ExportedPoses[a].pose
              IN /\ Len(anim.tracks) = pose.bones
                 /\ Len(anim.floats) = Len(pose.action.keyed)
                 /\ \A t \in AllTracks(anim) :
                       /\ Len(t.keys) = doc.frames
                       /\ t.keys[1] = 0
                       /\ \A i \in 2..Len(t.keys) : t.keys[i] = t.keys[i - 1] + 1

C14_Witness ==
    /\ op = "export" /\ pc = "done" /\ result = "FINISHED"
    /\ fps = 60
    /\ frame_interval = <<0, 3>>
    /\ Len(doc.animations) = 2
    /\ Len(doc.animations[2].tracks) = 1
    /\ Len(doc.animations[2].floats) = 1
    /\ doc.animations[2].tracks[1].keys = <<0, 1, 2>>
    /\ doc.animations[2].floats[1].keys = <<0, 1, 2>>

\* C15: an imported transform track whose ten channels were all created holds,
\* in each of the ten channels, one key for every key of the source track, at
\* the same frames and in the same order; a track of which any channel could
\* not be created has no key in any channel.
C15_TenChannels ==
    op = "import" =>
        \A k \in 1..Len(actions) :
           \A j \in 1..Len(actions[k].tracks) :
              LET t == actions[k].tracks[j]
                  source == idoc.animations[k].tracks[j]
              IN t.datatype = "TRANSFORM" =>
                    /\ source.datatype = "TRANSFORM"
                    /\ IF t.channels = 1..10
                       THEN \A c \in 1..10 : t.keys[c] = source.frames
                       ELSE \A c \in 1..10 : t.keys[c] = <<>>

C15_Witness ==
    /\ op = "import" /\ pc = "done" /\ result = "FINISHED"
    /\ Len(actions) = 2
    /\ actions[1].tracks[1].datatype = "TRANSFORM"
    /\ actions[1].tracks[1].channels = (1..10) \ {4}
    /\ actions[1].tracks[1].keys[1] = <<>>
    /\ actions[2].tracks[1].datatype = "TRANSFORM"
    /\ actions[2].tracks[1].channels = 1..10
    /\ actions[2].tracks[1].keys[10] = <<0, 1>>

\* C16: every timeline position that the sampling loop evaluates,
\* start + i * frame_step for i in 0..frames-1, lies within [start, end]
\* (positions count 1/30 of a host frame).
C16_SamplesInsideInterval ==
    (op = "export" /\ doc.created) =>
        \A a \in 1..Len(doc.animations) :
           \A i \in 1..Len(doc.animations[a].positions) :
              /\ doc.animations[a].positions[i] >= SAMPLING_RATE * frame_interval[1]
              /\ doc.animations[a].positions[i] <= SAMPLING_RATE * frame_interval[2]

\* C17: every annotation of an exported animation has an index within the
\* frame range of the document: 1 <= index <= frames.
C17_AnnotationInsideFrames ==
    (op = "export" /\ doc.created) =>
        \A a \in 1..Len(doc.animations) :
           \A i \in 1..Len(doc.animations[a].annotations) :
              LET index == doc.animations[a].annotations[i].index
              IN /\ index.den <= index.num
                 /\ index.num <= doc.frames * index.den

\* the skeleton files on the command line of the converter (after the tool,
\* the mode, the format, the temporary file and the output file)
SkeletonArgs(args) == SubSeq(args, 5, Len(args))

\* C18: when export invokes the converter, the skeleton paths on its command
\* line pair up in order with the animations of the document: as many paths
\* as animations, the k-th animation has the k-th path as its skeleton name,
\* and the animations are named 0, 1 in document order.
C18_SkeletonsPairUp ==
    (op = "export" /\ calls # <<>>) =>
        LET skeletons == SkeletonArgs(calls[Len(calls)])
        IN /\ Len(skeletons) = Len(doc.animations)
           /\ \A k \in 1..Len(doc.animations) :
                 /\ doc.animations[k].skeleton = skeletons[k]
                 /\ doc.animations[k].name = k - 1

\* C19: whenever HKXExport.execute returns, FINISHED or CANCELLED, the
\* current frame of the scene and the active object are the ones they were
\* when execute was called.
C19_ViewStateRestored ==
    (op = "export" /\ pc = "done") =>
        /\ result \in {"FINISHED", "CANCELLED"}
        /\ frame_current = entry.frame_current
        /\ active = entry.active

C19_Witness ==
    /\ op = "export" /\ pc = "done" /\ result = "FINISHED"
    /\ Len(armatures) = 2
    /\ Len(doc.animations) = 2
    /\ frame_interval = <<2, 3>>
    /\ entry.active # armatures[2]
    /\ active = entry.active
    /\ frame_current = 1

=============================================================================
